---- MODULE Spec2Model ----
(***************************************************************************)
(* Model of the bolt salvage tool (src/main.go): main opens the corrupt    *)
(* source store read-only and a destination store, lists the top-level     *)
(* buckets, and calls recoverBucket on each in turn.  recoverBucket stages  *)
(* the direct entries and the one-level sub-buckets of a bucket in memory   *)
(* (pairs, subs), then writes them in one destination transaction.  A       *)
(* corrupt page makes the storage library panic in the middle of an         *)
(* enumeration; recoverBucket and recoverSubBucket each defer a recover().  *)
(*                                                                          *)
(* Bucket names, keys and values are opaque byte strings in the program;    *)
(* here they are integers.  Value 0 stands for the empty (zero-length,      *)
(* non-nil) value, Nil for the nil slice the library hands to a ForEach     *)
(* callback for a nested bucket.                                            *)
(***************************************************************************)
EXTENDS Integers, Sequences, FiniteSets, TLC

\* ------------------------------------------------------------------ bounds
\* Largest number of top-level buckets in a source store.
MaxBuckets == 3
\* Largest number of destination-store failures injected in one run.
MaxWriteFails == 1

\* ------------------------------------------------------- the source store
\* The nil value of a nested-bucket entry (main.go:109, `v == nil`).
Nil == 0 - 1
\* A bucket whose enumeration raises no panic.
NoFault == 0 - 1

\* A bucket as the library presents it: the entries ForEach yields, in key
\* order, and the number of entries yielded before the library panics on a
\* corrupt page (NoFault: the enumeration completes).
Node(items, fault) == [items |-> items, fault |-> fault]
Leaf == Node(<<>>, NoFault)
\* A key/value entry, and a nested-bucket entry (nil value).
V(k, v) == [key |-> k, val |-> v, child |-> Leaf]
B(k, node) == [key |-> k, val |-> Nil, child |-> node]

\* Sub-bucket contents used by the source stores below.
SubOk == Node(<<V(1, 11), V(2, 0)>>, NoFault)
SubFault0 == Node(<<V(1, 21), V(2, 22)>>, 0)
SubFault1 == Node(<<V(1, 31), V(2, 32)>>, 1)
SubNested == Node(<<V(1, 41), B(2, Node(<<V(1, 51)>>, NoFault)), V(3, 43)>>, NoFault)

\* The top-level buckets a source store is assembled from.  found = FALSE is
\* a listed name that tx.Bucket cannot locate at the moment of descent.
BucketShapes ==
  { [found |-> FALSE, node |-> Leaf],
    [found |-> TRUE, node |-> Node(<<V(1, 0), B(2, SubOk), V(3, 3)>>, NoFault)],
    [found |-> TRUE, node |-> Node(<<B(1, SubFault1), V(2, 2), B(3, SubFault0), B(4, SubOk)>>, NoFault)],
    [found |-> TRUE, node |-> Node(<<V(1, 1), B(2, SubNested)>>, NoFault)],
    [found |-> TRUE, node |-> Node(<<V(1, 1), B(2, SubFault1), V(3, 3)>>, 2)] }

\* Source stores: up to MaxBuckets top-level buckets, named 1..n in the
\* store's enumeration order.
Stores == UNION { [1..n -> BucketShapes] : n \in 0..MaxBuckets }

\* How the listing of the top-level bucket names (tx.ForEach) ends.
ListOutcomes == {"ok", "error", "panic"}

\* ----------------------------------------------------------------- state
VARIABLES
  store,          \* the source store (never mutated)
  listing,        \* how listing the source's top-level buckets ends
  pc,             \* position of the program
  srcOpen,        \* source handle: "none", "open", "closed"
  dstOpen,        \* destination handle: "none", "open", "closed"
  bucketNames,    \* main: names collected by the listing
  next,           \* main: index in bucketNames of the bucket being recovered
  totalKeys,      \* main: totalKeys
  failedBuckets,  \* main: failedBuckets
  pos,            \* recoverBucket: entries yielded so far by b.ForEach
  pairs,          \* recoverBucket: staged direct entries
  subs,           \* recoverBucket: staged sub-buckets
  recovered,      \* recoverBucket: named result `recovered`
  ok,             \* recoverBucket: named result `ok`
  txOpen,         \* a destination write transaction is in progress
  txCount,        \* calls of dst.Update so far
  txBuckets,      \* bucket paths in the transaction's working copy
  txEntries,      \* entries in the transaction's working copy
  dstBuckets,     \* committed bucket paths of the destination store
  dstEntries,     \* committed entries <<path, key, value>> of the destination
  exitCode,       \* process exit status (Nil while running)
  out,            \* lines printed so far
  rejected        \* operations the destination store has failed

vars == << store, listing, pc, srcOpen, dstOpen, bucketNames, next, totalKeys,
           failedBuckets, pos, pairs, subs, recovered, ok, txOpen, txCount,
           txBuckets, txEntries, dstBuckets, dstEntries, exitCode, out, rejected >>

mainVars == << bucketNames, next, totalKeys, failedBuckets >>
stageVars == << pos, pairs, subs >>
txVars == << txOpen, txCount, txBuckets, txEntries >>
dstVars == << dstBuckets, dstEntries >>

Init ==
  /\ store \in Stores
  /\ listing \in ListOutcomes
  /\ pc = "open_src"
  /\ srcOpen = "none"
  /\ dstOpen = "none"
  /\ bucketNames = <<>>
  /\ next = 1
  /\ totalKeys = 0
  /\ failedBuckets = 0
  /\ pos = 0
  /\ pairs = <<>>
  /\ subs = <<>>
  /\ recovered = 0
  /\ ok = FALSE
  /\ txOpen = FALSE
  /\ txCount = 0
  /\ txBuckets = {}
  /\ txEntries = {}
  /\ dstBuckets = {}
  /\ dstEntries = {}
  /\ exitCode = Nil
  /\ out = <<>>
  /\ rejected = {}


\* ----------------------------------------------------- helper operators
\* The top-level bucket being recovered and its name.
CurName == bucketNames[next]
CurBucket == store[CurName]

\* kv (main.go:77-79) and subbucket (main.go:81-84).
kv(k, v) == [key |-> k, value |-> v]
subbucket(n, d) == [name |-> n, data |-> d]

\* The entries an enumeration of node yields before it ends or panics.
Yielded(node) ==
  SubSeq(node.items, 1,
         IF node.fault = NoFault THEN Len(node.items) ELSE node.fault)

\* recoverSubBucket testing len(v) == 0 instead of v == nil: an entry with an
\* empty value is taken for a nested bucket and skipped.
recoverSubBucketEmptyAsBucket(node) ==
  LET kept == SelectSeq(Yielded(node), LAMBDA it : it.val > 0)
  IN  [j \in 1..Len(kept) |-> kv(kept[j].key, kept[j].val)]

\* recoverSubBucket descending into nested buckets: the entries of a bucket
\* nested in the sub-bucket are read like the sub-bucket's own.
RECURSIVE recoverSubBucketDescending(_)
recoverSubBucketDescending(node) ==
  LET RECURSIVE Collect(_)
      Collect(its) ==
        IF its = <<>> THEN <<>>
        ELSE (IF Head(its).val = Nil
              THEN recoverSubBucketDescending(Head(its).child)
              ELSE << kv(Head(its).key, Head(its).val) >>)
             \o Collect(Tail(its))
  IN  Collect(Yielded(node))

\* recoverSubBucket (main.go:174-195): the key/value entries yielded before
\* the enumeration ends or panics; nested buckets (nil value) are skipped.
\* The deferred recover() returns the pairs appended so far.
recoverSubBucket(node) ==
  LET kept == SelectSeq(Yielded(node), LAMBDA it : it.val # Nil)
  IN  [j \in 1..Len(kept) |-> kv(kept[j].key, kept[j].val)]

\* The line recoverSubBucket's deferred function prints when it recovers a
\* panic (main.go:176-179): the parent's name and len(pairs).
SubPanicLines(node, parentName) ==
  IF node.fault = NoFault THEN <<>>
  ELSE << <<"panic_sub", parentName, Len(recoverSubBucket(node))>> >>

\* Put on the top-level bucket whatever bucket the entry was staged for
\* (`b.Put` in place of `sub.Put`, main.go:155).
PutInParent(entries, path, k, v) ==
  {e \in entries : ~(e[1] = <<path[1]>> /\ e[2] = k)} \cup {<< <<path[1]>>, k, v>>}

\* Bucket.Put inside a transaction: sets the value of key k of bucket path.
Put(entries, path, k, v) ==
  {e \in entries : ~(e[1] = path /\ e[2] = k)} \cup {<<path, k, v>>}

\* PutAll leaving the loop at the first failed put (`break` or `return err`
\* in place of `continue`, main.go:143, 156).
RECURSIVE PutAllStopAtFailure(_, _, _, _, _)
PutAllStopAtFailure(entries, path, data, failed, from) ==
  IF from > Len(data) \/ from \in failed THEN entries
  ELSE PutAllStopAtFailure(Put(entries, path, data[from].key, data[from].value),
                           path, data, failed, from + 1)

\* The loop `for _, p := range data { Put; recovered++ }` (main.go:140-146,
\* 154-159) over data[from..]: puts whose index is in failed return an error
\* and are skipped.
RECURSIVE PutAll(_, _, _, _, _)
PutAll(entries, path, data, failed, from) ==
  IF from > Len(data) THEN entries
  ELSE PutAll(IF from \in failed THEN entries
              ELSE Put(entries, path, data[from].key, data[from].value),
              path, data, failed, from + 1)

\* The operations of one destination transaction that can fail:
\* <<"mk", 0, 0>> creating the top-level bucket, <<"put", 0, i>> the put of
\* pairs[i], <<"mk", j, 0>> creating sub-bucket subs[j], <<"put", j, i>> the
\* put of subs[j].data[i].
TxPoints ==
  {<<"mk", 0, 0>>}
    \cup {<<"put", 0, i>> : i \in 1..Len(pairs)}
    \cup {<<"mk", j, 0>> : j \in 1..Len(subs)}
    \cup UNION {{<<"put", j, i>> : i \in 1..Len(subs[j].data)} : j \in 1..Len(subs)}

\* Failures the destination may still produce in this run.
Budget == MaxWriteFails - Cardinality(rejected)

RECURSIVE SubsetsUpTo(_, _)
SubsetsUpTo(S, n) ==
  IF n = 0 \/ S = {} THEN {{}}
  ELSE LET smaller == SubsetsUpTo(S, n - 1)
       IN  smaller \cup {T \cup {x} : T \in smaller, x \in S}

\* The sets of operations that fail in one transaction: creating the
\* top-level bucket fails alone (the transaction ends there), and no put is
\* attempted in a sub-bucket that could not be created.
FailChoices ==
  {F \in SubsetsUpTo(TxPoints, Budget) :
     /\ <<"mk", 0, 0>> \in F => F = {<<"mk", 0, 0>>}
     /\ \A f \in F : f[1] = "put" /\ f[2] > 0 => <<"mk", f[2], 0>> \notin F}

FailedPuts(F, j) == {f[3] : f \in {g \in F : g[1] = "put" /\ g[2] = j}}

\* The sub-bucket part of the transaction (main.go:148-160) over subs[from..].
RECURSIVE WriteSubs(_, _, _, _)
WriteSubs(entries, name, F, from) ==
  IF from > Len(subs) THEN entries
  ELSE WriteSubs(IF <<"mk", from, 0>> \in F THEN entries
                 ELSE PutAll(entries, <<name, subs[from].name>>,
                             subs[from].data, FailedPuts(F, from), 1),
                 name, F, from + 1)

\* Successful puts of the transaction: the final value of `recovered`.
RECURSIVE CountSubPuts(_, _)
CountSubPuts(F, from) ==
  IF from > Len(subs) THEN 0
  ELSE (IF <<"mk", from, 0>> \in F THEN 0
        ELSE Len(subs[from].data) - Cardinality(FailedPuts(F, from)))
       + CountSubPuts(F, from + 1)

CountPuts(F) == Len(pairs) - Cardinality(FailedPuts(F, 0)) + CountSubPuts(F, 1)

\* The [WARN] lines of one transaction (main.go:142, 151): one per failed
\* put of a direct entry, then one per sub-bucket that could not be created.
\* A failed put inside a sub-bucket prints nothing (main.go:155-157).
RECURSIVE WarnLines(_, _, _)
WarnLines(F, phase, from) ==
  IF phase = 0
  THEN IF from > Len(pairs) THEN WarnLines(F, 1, 1)
       ELSE (IF from \in FailedPuts(F, 0) THEN << <<"warn_key">> >> ELSE <<>>)
            \o WarnLines(F, 0, from + 1)
  ELSE IF from > Len(subs) THEN <<>>
       ELSE (IF <<"mk", from, 0>> \in F
             THEN << <<"warn_sub", subs[from].name>> >> ELSE <<>>)
            \o WarnLines(F, 1, from + 1)

\* ------------------------------------------------------------- main
\* bolt.Open of the source (main.go:24-32).
OpenSrc ==
  /\ pc = "open_src"
  /\ \/ /\ srcOpen' = "open"
        /\ pc' = "open_dst"
        /\ UNCHANGED exitCode
     \/ /\ pc' = "exit"              \* log.Fatalf
        /\ exitCode' = 1
        /\ UNCHANGED srcOpen
  /\ UNCHANGED << store, listing, dstOpen, mainVars, stageVars, recovered, ok,
                  txVars, dstVars, out, rejected >>

\* bolt.Open of the destination (main.go:34-38).  log.Fatalf exits without
\* running the deferred src.Close().
OpenDst ==
  /\ pc = "open_dst"
  /\ \/ /\ dstOpen' = "open"
        /\ pc' = "list"
        /\ UNCHANGED exitCode
     \/ /\ pc' = "exit"
        /\ exitCode' = 1
        /\ UNCHANGED dstOpen
  /\ UNCHANGED << store, listing, srcOpen, mainVars, stageVars, recovered, ok,
                  txVars, dstVars, out, rejected >>

\* Collecting the bucket names (main.go:41-54).
ListOk ==
  /\ pc = "list"
  /\ listing = "ok"
  /\ bucketNames' = [n \in 1..Len(store) |-> n]
  /\ out' = Append(out, <<"found", Len(store)>>)
  /\ pc' = "loop"
  /\ UNCHANGED << store, listing, srcOpen, dstOpen, next, totalKeys,
                  failedBuckets, stageVars, recovered, ok, txVars, dstVars,
                  exitCode, rejected >>

\* ListError with the test of main.go:50 dropped: the error is ignored and
\* the run goes on with the names collected, here none.
ListErrorIgnored ==
  /\ pc = "list"
  /\ listing = "error"
  /\ out' = Append(out, <<"found", Len(bucketNames)>>)
  /\ pc' = "loop"
  /\ UNCHANGED << store, listing, srcOpen, dstOpen, mainVars, stageVars,
                  recovered, ok, txVars, dstVars, exitCode, rejected >>

\* src.View returns an error: log.Fatalf (main.go:50-52), deferred calls do
\* not run.
ListError ==
  /\ pc = "list"
  /\ listing = "error"
  /\ pc' = "exit"
  /\ exitCode' = 1
  /\ UNCHANGED << store, listing, srcOpen, dstOpen, mainVars, stageVars,
                  recovered, ok, txVars, dstVars, out, rejected >>

\* The listing panics on a corrupt page after some of the names were
\* appended to bucketNames (main.go:43-48): nothing in main recovers it; the
\* deferred Close calls run while the panic unwinds and the process exits
\* with status 2.
ListPanic ==
  /\ pc = "list"
  /\ listing = "panic"
  /\ \E k \in 0..(IF Len(store) = 0 THEN 0 ELSE Len(store) - 1) :
       bucketNames' = [n \in 1..k |-> n]
  /\ pc' = "exit"
  /\ exitCode' = 2
  /\ srcOpen' = "closed"
  /\ dstOpen' = "closed"
  /\ UNCHANGED << store, listing, next, totalKeys, failedBuckets, stageVars,
                  recovered, ok, txVars, dstVars, out, rejected >>

\* One iteration of `for _, bname := range bucketNames` begins: the call of
\* recoverBucket (main.go:60, 89-101).
CallRecoverBucket ==
  /\ pc = "loop"
  /\ next <= Len(bucketNames)
  /\ out' = Append(out, <<"recovering", CurName>>)
  /\ pos' = 0
  /\ pairs' = <<>>
  /\ subs' = <<>>
  /\ recovered' = 0
  /\ ok' = FALSE
  /\ pc' = "view"
  /\ UNCHANGED << store, listing, srcOpen, dstOpen, mainVars, txVars, dstVars,
                  exitCode, rejected >>

\* After the loop: the summary and the exit status (main.go:67-75).
\* os.Exit(1) does not run the deferred Close calls; returning from main does.
Summary ==
  /\ pc = "loop"
  /\ next > Len(bucketNames)
  /\ out' = Append(out, <<"summary", totalKeys, failedBuckets, Len(bucketNames)>>)
  /\ pc' = "exit"
  /\ IF failedBuckets > 0
     THEN /\ exitCode' = 1
          /\ UNCHANGED << srcOpen, dstOpen >>
     ELSE /\ exitCode' = 0
          /\ srcOpen' = "closed"
          /\ dstOpen' = "closed"
  /\ UNCHANGED << store, listing, mainVars, stageVars, recovered, ok, txVars,
                  dstVars, rejected >>

\* ----------------------------------------------------- recoverBucket
\* src.View / tx.Bucket (main.go:103-107, 129-131): a bucket that cannot be
\* located makes View return an error, which is printed; the function goes
\* on to the write phase with nothing staged.
ViewBucket ==
  /\ pc = "view"
  /\ IF CurBucket.found
     THEN /\ pc' = "foreach"
          /\ UNCHANGED out
     ELSE /\ pc' = "write"
          /\ out' = Append(out, <<"error_read", CurName>>)
  /\ UNCHANGED << store, listing, srcOpen, dstOpen, mainVars, stageVars,
                  recovered, ok, txVars, dstVars, exitCode, rejected >>

\* ForEachEntry writing through: a key/value entry is put in the destination
\* in the callback that reads it, in place of being staged in pairs
\* (main.go:120-124).
ForEachEntryWriteThrough ==
  /\ pc = "foreach"
  /\ CurBucket.node.fault # pos
  /\ pos < Len(CurBucket.node.items)
  /\ LET it == CurBucket.node.items[pos + 1]
     IN  IF it.val = Nil
         THEN /\ subs' = Append(subs, subbucket(it.key, recoverSubBucket(it.child)))
              /\ out' = out \o SubPanicLines(it.child, CurName)
              /\ UNCHANGED << pairs, dstVars >>
         ELSE /\ dstBuckets' = dstBuckets \cup {<<CurName>>}
              /\ dstEntries' = Put(dstEntries, <<CurName>>, it.key, it.val)
              /\ UNCHANGED << pairs, subs, out >>
  /\ pos' = pos + 1
  /\ UNCHANGED << store, listing, pc, srcOpen, dstOpen, mainVars, recovered, ok,
                  txVars, exitCode, rejected >>

\* One callback of b.ForEach (main.go:108-126) for the next entry: a nested
\* bucket is read by recoverSubBucket and staged in subs, a key/value entry
\* is copied and staged in pairs.
ForEachEntry ==
  /\ pc = "foreach"
  /\ CurBucket.node.fault # pos
  /\ pos < Len(CurBucket.node.items)
  /\ LET it == CurBucket.node.items[pos + 1]
     IN  IF it.val = Nil
         THEN /\ subs' = Append(subs, subbucket(it.key, recoverSubBucket(it.child)))
              /\ out' = out \o SubPanicLines(it.child, CurName)
              /\ UNCHANGED pairs
         ELSE /\ pairs' = Append(pairs, kv(it.key, it.val))
              /\ UNCHANGED << subs, out >>
  /\ pos' = pos + 1
  /\ UNCHANGED << store, listing, pc, srcOpen, dstOpen, mainVars, recovered, ok,
                  txVars, dstVars, exitCode, rejected >>

\* b.ForEach has yielded every entry: View returns nil (main.go:126-127).
ForEachDone ==
  /\ pc = "foreach"
  /\ CurBucket.node.fault # pos
  /\ pos = Len(CurBucket.node.items)
  /\ pc' = "write"
  /\ UNCHANGED << store, listing, srcOpen, dstOpen, mainVars, stageVars,
                  recovered, ok, txVars, dstVars, exitCode, out, rejected >>

\* ForEachPanic without the deferred recover() of main.go:90-96: the panic
\* reaches main, the deferred Close calls run and the process dies.
ForEachPanicUnrecovered ==
  /\ pc = "foreach"
  /\ CurBucket.node.fault = pos
  /\ pc' = "exit"
  /\ exitCode' = 2
  /\ srcOpen' = "closed"
  /\ dstOpen' = "closed"
  /\ UNCHANGED << store, listing, mainVars, stageVars, recovered, ok, txVars,
                  dstVars, out, rejected >>

\* The library panics while b.ForEach advances.  The panic unwinds View and
\* the rest of recoverBucket's body up to its deferred function
\* (main.go:90-96), which prints `recovered`, sets ok = false and makes
\* recoverBucket return: the write phase (main.go:134-171) is not executed.
ForEachPanic ==
  /\ pc = "foreach"
  /\ CurBucket.node.fault = pos
  /\ out' = Append(out, <<"panic_bucket", CurName, recovered>>)
  /\ ok' = FALSE
  /\ pc' = "return"
  /\ UNCHANGED << store, listing, srcOpen, dstOpen, mainVars, stageVars,
                  recovered, txVars, dstVars, exitCode, rejected >>

\* The function passed to dst.Update (main.go:134-163), run on the
\* transaction's working copy of the destination; F are the operations the
\* destination store fails.
WriteTx ==
  /\ pc = "write"
  /\ \E F \in FailChoices :
       /\ rejected' = rejected \cup {<<CurName, f[1], f[2], f[3]>> : f \in F}
       /\ txCount' = txCount + 1
       /\ IF <<"mk", 0, 0>> \in F
          THEN \* CreateBucketIfNotExists fails: the function returns the
               \* error, Update rolls back and returns it (main.go:135-138,
               \* 165-168).
               /\ out' = Append(out, <<"error_write", CurName>>)
               /\ ok' = FALSE
               /\ pc' = "return"
               /\ UNCHANGED << recovered, txOpen, txBuckets, txEntries >>
          ELSE /\ txOpen' = TRUE
               /\ txBuckets' = dstBuckets \cup {<<CurName>>}
                     \cup {<<CurName, subs[j].name>> :
                             j \in {x \in 1..Len(subs) : <<"mk", x, 0>> \notin F}}
               /\ txEntries' =
                     WriteSubs(PutAll(dstEntries, <<CurName>>, pairs,
                                      FailedPuts(F, 0), 1),
                               CurName, F, 1)
               /\ recovered' = CountPuts(F)
               /\ out' = out \o WarnLines(F, 0, 1)
               /\ pc' = "commit"
               /\ UNCHANGED ok
  /\ UNCHANGED << store, listing, srcOpen, dstOpen, mainVars, stageVars, dstVars,
                  exitCode >>

\* The transaction commits: its working copy becomes the destination's
\* content, and recoverBucket returns (recovered, true) (main.go:170-171).
CommitOk ==
  /\ pc = "commit"
  /\ dstBuckets' = txBuckets
  /\ dstEntries' = txEntries
  /\ txOpen' = FALSE
  /\ txBuckets' = {}
  /\ txEntries' = {}
  /\ out' = Append(out, <<"ok", Len(pairs), Len(subs)>>)
  /\ ok' = TRUE
  /\ pc' = "return"
  /\ UNCHANGED << store, listing, srcOpen, dstOpen, mainVars, stageVars,
                  recovered, txCount, exitCode, rejected >>

\* CommitFail escalating the error as a fatal condition (log.Fatalf) instead
\* of returning (recovered, false): the run ends there.
CommitFailFatal ==
  /\ pc = "commit"
  /\ Budget > 0
  /\ rejected' = rejected \cup {<<CurName, "commit", 0, 0>>}
  /\ txOpen' = FALSE
  /\ txBuckets' = {}
  /\ txEntries' = {}
  /\ out' = Append(out, <<"error_write", CurName>>)
  /\ exitCode' = 1
  /\ pc' = "exit"
  /\ UNCHANGED << store, listing, srcOpen, dstOpen, mainVars, stageVars,
                  recovered, ok, txCount, dstVars >>

\* The commit fails: the transaction is discarded, Update returns the error
\* and recoverBucket returns (recovered, false) (main.go:165-168).
CommitFail ==
  /\ pc = "commit"
  /\ Budget > 0
  /\ rejected' = rejected \cup {<<CurName, "commit", 0, 0>>}
  /\ txOpen' = FALSE
  /\ txBuckets' = {}
  /\ txEntries' = {}
  /\ out' = Append(out, <<"error_write", CurName>>)
  /\ ok' = FALSE
  /\ pc' = "return"
  /\ UNCHANGED << store, listing, srcOpen, dstOpen, mainVars, stageVars,
                  recovered, txCount, dstVars, exitCode >>

\* Return with the test of main.go:62 inverted (`if ok`).
ReturnInverted ==
  /\ pc = "return"
  /\ totalKeys' = totalKeys + recovered
  /\ failedBuckets' = IF ok THEN failedBuckets + 1 ELSE failedBuckets
  /\ next' = next + 1
  /\ pc' = "loop"
  /\ UNCHANGED << store, listing, srcOpen, dstOpen, bucketNames, stageVars,
                  recovered, ok, txVars, dstVars, exitCode, out, rejected >>

\* Return leaving the loop at the first bucket that failed (`break` after
\* main.go:63).
ReturnStopAtFailure ==
  /\ pc = "return"
  /\ totalKeys' = totalKeys + recovered
  /\ failedBuckets' = IF ok THEN failedBuckets ELSE failedBuckets + 1
  /\ next' = IF ok THEN next + 1 ELSE Len(bucketNames) + 1
  /\ pc' = "loop"
  /\ UNCHANGED << store, listing, srcOpen, dstOpen, bucketNames, stageVars,
                  recovered, ok, txVars, dstVars, exitCode, out, rejected >>

\* recoverBucket has returned: the rest of the loop body (main.go:61-64).
Return ==
  /\ pc = "return"
  /\ totalKeys' = totalKeys + recovered
  /\ failedBuckets' = IF ok THEN failedBuckets ELSE failedBuckets + 1
  /\ next' = next + 1
  /\ pc' = "loop"
  /\ UNCHANGED << store, listing, srcOpen, dstOpen, bucketNames, stageVars,
                  recovered, ok, txVars, dstVars, exitCode, out, rejected >>

Next ==
  \/ OpenSrc
  \/ OpenDst
  \/ ListOk
  \/ ListError
  \/ ListPanic
  \/ CallRecoverBucket
  \/ ViewBucket
  \/ ForEachEntry
  \/ ForEachDone
  \/ ForEachPanic
  \/ WriteTx
  \/ CommitOk
  \/ CommitFail
  \/ Return
  \/ Summary

Spec == Init /\ [][Next]_vars

\* The program is sequential and every step of it runs to its end: whenever
\* a step is possible, one is taken.
FairSpec == Spec /\ WF_vars(Next)

\* ------------------------------------------- what the source store holds
Range(seq) == {seq[i] : i \in DOMAIN seq}

IsValue(it) == it.val # Nil
IsBucket(it) == it.val = Nil

\* The key/value entries and the nested buckets of a bucket, in key order.
Values(node) == SelectSeq(node.items, IsValue)
Buckets(node) == SelectSeq(node.items, IsBucket)

\* The key/value entries among the first entries a bucket yields, as
\* destination entries at path.
YieldedValues(path, node) ==
  {<<path, it.key, it.val>> : it \in {x \in Range(Yielded(node)) : IsValue(x)}}

\* Every key/value entry of the source store, by bucket path, at any depth.
SrcEntries ==
  UNION {
    {<<<<n>>, it.key, it.val>> : it \in Range(Values(store[n].node))}
    \cup UNION {
      {<<<<n, sb.key>>, it.key, it.val>> : it \in Range(Values(sb.child))}
      \cup UNION {
        {<<<<n, sb.key, g.key>>, it.key, it.val>> : it \in Range(Values(g.child))}
        : g \in Range(Buckets(sb.child)) }
      : sb \in Range(Buckets(store[n].node)) }
    : n \in DOMAIN store }

\* The enumeration of top-level bucket n itself panics.
TopFaulted(n) == store[n].found /\ store[n].node.fault # NoFault
\* The enumeration of some sub-bucket that the run visits in top-level
\* bucket n panics.
SubFaulted(n) ==
  /\ store[n].found
  /\ \E sb \in Range(Yielded(store[n].node)) : IsBucket(sb) /\ sb.child.fault # NoFault
\* No enumeration of the store panics, at any depth.
StoreFaultFree ==
  \A n \in DOMAIN store :
    /\ store[n].node.fault = NoFault
    /\ \A sb \in Range(Buckets(store[n].node)) :
         /\ sb.child.fault = NoFault
         /\ \A g \in Range(Buckets(sb.child)) : g.child.fault = NoFault
\* Some sub-bucket of the store holds a nested bucket.
DeepNesting ==
  \E n \in DOMAIN store : \E sb \in Range(Buckets(store[n].node)) :
    Buckets(sb.child) # <<>>

\* What the destination holds of top-level bucket n.
DstBucketsOf(n) == {q \in dstBuckets : q[1] = n}
DstEntriesOf(n) == {e \in dstEntries : e[1][1] = n}
\* The destination operations of bucket n's transaction that failed.
RejectedAt(n) == {<<r[2], r[3], r[4]>> : r \in {q \in rejected : q[1] = n}}

\* The listing succeeded and the run has ended after its summary.
RunEnded == pc = "exit" /\ Len(out) > 0 /\ out[Len(out)][1] = "summary"
\* Top-level bucket n has been recovered and recoverBucket has returned.
Returned(n) == n \in 1..Len(bucketNames) /\ n < next
\* The lines printed with tag t about bucket n.
Lines(t, n) == {i \in DOMAIN out : out[i][1] = t /\ out[i][2] = n}

\* ------------------------------------------------------------- claims
\* C1: when the enumeration of top-level bucket B panics after N key/value
\* entries were yielded, after the run the destination holds bucket B with
\* exactly those N entries, and B is reported as faulted.
C1_FaultedBucketKeepsPrefix ==
  RunEnded =>
    \A n \in DOMAIN store :
      (TopFaulted(n) /\ RejectedAt(n) = {}) =>
        /\ <<n>> \in dstBuckets
        /\ {e \in dstEntries : e[1] = <<n>>} = YieldedValues(<<n>>, store[n].node)
        /\ Lines("panic_bucket", n) # {}

\* What a run writes of top-level bucket n, and the result it reports for
\* it, stated from bucket n's own content and from the destination
\* operations of its own transaction that failed -- from nothing else in the
\* store.
AloneWritten(n) ==
  /\ ~TopFaulted(n)
  /\ <<"mk", 0, 0>> \notin RejectedAt(n)
  /\ <<"commit", 0, 0>> \notin RejectedAt(n)
AloneNode(n) == IF store[n].found THEN store[n].node ELSE Leaf
AloneBuckets(n) ==
  IF ~AloneWritten(n) THEN {}
  ELSE {<<n>>} \cup
       {<<n, Buckets(AloneNode(n))[j].key>> :
          j \in {x \in DOMAIN Buckets(AloneNode(n)) : <<"mk", x, 0>> \notin RejectedAt(n)}}
AloneEntries(n) ==
  IF ~AloneWritten(n) THEN {}
  ELSE {<<<<n>>, Values(AloneNode(n))[i].key, Values(AloneNode(n))[i].val>> :
          i \in {x \in DOMAIN Values(AloneNode(n)) : <<"put", 0, x>> \notin RejectedAt(n)}}
       \cup UNION {
         LET sb == Buckets(AloneNode(n))[j]
             kept == SelectSeq(Yielded(sb.child), IsValue)
         IN  {<<<<n, sb.key>>, kept[i].key, kept[i].val>> :
                i \in {x \in DOMAIN kept : <<"put", j, x>> \notin RejectedAt(n)}}
         : j \in {x \in DOMAIN Buckets(AloneNode(n)) : <<"mk", x, 0>> \notin RejectedAt(n)} }
AloneOk(n) == AloneWritten(n)

\* C2: a panic in the enumeration of top-level bucket B does not leak to its
\* siblings: every other top-level bucket, before or after B, ends in the
\* destination with the entries and sub-buckets, and returns the ok result,
\* that its own content and its own transaction determine -- the same as in
\* a run in which B raises no panic.
C2_SiblingsUnaffected ==
  (pc \in {"exit", "return"}) =>
    \A b \in DOMAIN store : TopFaulted(b) =>
      \A x \in DOMAIN store \ {b} :
        /\ (pc = "exit" /\ Len(bucketNames) = Len(store)) =>
             /\ DstBucketsOf(x) = AloneBuckets(x)
             /\ DstEntriesOf(x) = AloneEntries(x)
        /\ (pc = "return" /\ CurName = x) => ok = AloneOk(x)

\* A run over three buckets in which the second one panics and both its
\* siblings, one with a sub-bucket, were written.
C2_Witness ==
  /\ RunEnded
  /\ Len(store) = 3
  /\ TopFaulted(2) /\ ~TopFaulted(1) /\ ~TopFaulted(3)
  /\ DstEntriesOf(1) # {}
  /\ \E e \in DstEntriesOf(3) : Len(e[1]) = 2

\* C3: when the enumeration of a sub-bucket S of top-level bucket B panics,
\* no direct entry of B that was already staged is lost and no other
\* sub-bucket of B loses an entry: after the run the destination holds the
\* direct entries B yielded and the entries of every sub-bucket of B whose
\* enumeration did not panic.
C3_SubFaultKeepsParent ==
  RunEnded =>
    \A n \in DOMAIN store :
      (SubFaulted(n) /\ RejectedAt(n) = {}) =>
        /\ YieldedValues(<<n>>, store[n].node) \subseteq dstEntries
        /\ \A sb \in Range(Yielded(store[n].node)) :
             (IsBucket(sb) /\ sb.child.fault = NoFault) =>
               /\ <<n, sb.key>> \in dstBuckets
               /\ YieldedValues(<<n, sb.key>>, sb.child) \subseteq dstEntries

\* The same statement for the buckets B whose own enumeration completes: it
\* holds, so the sub-bucket's boundary (main.go:175-180) does contain the
\* panic; C3_SubFaultKeepsParent fails only where B itself panics later.
SubFaultIsolatedWhenParentCompletes ==
  RunEnded =>
    \A n \in DOMAIN store :
      (SubFaulted(n) /\ ~TopFaulted(n) /\ RejectedAt(n) = {}) =>
        /\ YieldedValues(<<n>>, store[n].node) \subseteq dstEntries
        /\ \A sb \in Range(Buckets(store[n].node)) :
             sb.child.fault = NoFault =>
               /\ <<n, sb.key>> \in dstBuckets
               /\ YieldedValues(<<n, sb.key>>, sb.child) \subseteq dstEntries

\* C4 as stated: for every source store in which no panic is raised, after
\* a run into a fresh destination (one that fails no operation) the
\* destination's entries (path, key, value) are exactly the source's
\* entries, and the summary reports zero buckets with errors.
C4_FaultFreeCopyIsExact ==
  (RunEnded /\ StoreFaultFree /\ rejected = {}) =>
    /\ dstEntries = SrcEntries
    /\ out[Len(out)][3] = 0

\* C4 amended: for every source store in which no panic is raised and no
\* bucket is nested deeper than one level below a top-level bucket, after a
\* run into a fresh destination (one that fails no operation) the
\* destination's entries are exactly the source's entries and the summary
\* reports zero buckets with errors.
C4_FaultFreeShallowCopyIsExact ==
  (RunEnded /\ StoreFaultFree /\ ~DeepNesting /\ rejected = {}) =>
    /\ dstEntries = SrcEntries
    /\ out[Len(out)][3] = 0

\* A fault-free run over two or more buckets that copied a sub-bucket entry
\* with an empty value.
C4_Witness ==
  /\ RunEnded /\ StoreFaultFree /\ ~DeepNesting /\ rejected = {}
  /\ Len(store) >= 2
  /\ \E e \in dstEntries : Len(e[1]) = 2 /\ e[3] = 0

\* The destination transaction of top-level bucket n failed as a whole.
TxFailed(n) ==
  <<"mk", 0, 0>> \in RejectedAt(n) \/ <<"commit", 0, 0>> \in RejectedAt(n)

\* The top-level buckets with at least one fault record ([PANIC] line), for
\* their own enumeration or for one of their sub-buckets.
BucketsWithFaultRecord ==
  {n \in DOMAIN store : Lines("panic_bucket", n) # {} \/ Lines("panic_sub", n) # {}}
\* The top-level buckets whose own enumeration panicked or whose destination
\* transaction failed.
BucketsNotOk == {n \in DOMAIN store : TopFaulted(n) \/ TxFailed(n)}

\* C5 as stated: the count of buckets with faults in the summary is the
\* number of top-level buckets with at least one fault record (own or of a
\* sub-bucket), and the exit status is 0 exactly when that count is zero and
\* both stores opened.
C5_CountIsBucketsWithFaultRecord ==
  RunEnded =>
    /\ out[Len(out)][3] = Cardinality(BucketsWithFaultRecord)
    /\ exitCode = 0 <=> Cardinality(BucketsWithFaultRecord) = 0

\* C5 amended: the count of buckets with errors in the summary is the number
\* of top-level buckets whose own enumeration panicked or whose destination
\* transaction failed -- a panic in a sub-bucket is not counted -- and the
\* exit status is 0 exactly when the run reached its summary with that count
\* zero.
C5_CountIsBucketsNotOk ==
  /\ RunEnded => out[Len(out)][3] = Cardinality(BucketsNotOk)
  /\ pc = "exit" => (exitCode = 0 <=> (RunEnded /\ Cardinality(BucketsNotOk) = 0))

\* A finished run with a bucket that only had a sub-bucket panic, a bucket
\* whose own enumeration panicked, and a count of one.
C5_Witness ==
  /\ RunEnded
  /\ \E n \in DOMAIN store : SubFaulted(n) /\ ~TopFaulted(n)
  /\ \E n \in DOMAIN store : TopFaulted(n)
  /\ out[Len(out)][3] = 1
  /\ exitCode = 1

\* C6: a sub-bucket whose enumeration panics is still written: it is created
\* in the destination under its parent with exactly the entries staged
\* before the panic (none when it panics at once), and the parent keeps its
\* other staged entries; a fault on a staged subtree, top-level or not,
\* never decides whether the subtree is written.
C6_FaultedSubBucketWritten ==
  RunEnded =>
    \A n \in DOMAIN store :
      (store[n].found /\ RejectedAt(n) = {}) =>
        /\ <<n>> \in dstBuckets
        /\ \A sb \in Range(Yielded(store[n].node)) :
             (IsBucket(sb) /\ sb.child.fault # NoFault) =>
               /\ <<n, sb.key>> \in dstBuckets
               /\ {e \in dstEntries : e[1] = <<n, sb.key>>}
                    = YieldedValues(<<n, sb.key>>, sb.child)
               /\ YieldedValues(<<n>>, store[n].node) \subseteq dstEntries

\* The same statement for the parents whose own enumeration completes: it
\* holds (main.go:115-116 stage what recoverSubBucket returns after its
\* recover(), main.go:148-160 write every staged sub-bucket).
FaultedSubBucketWrittenWhenParentCompletes ==
  RunEnded =>
    \A n \in DOMAIN store :
      (store[n].found /\ ~TopFaulted(n) /\ RejectedAt(n) = {}) =>
        \A sb \in Range(Buckets(store[n].node)) :
          sb.child.fault # NoFault =>
            /\ <<n, sb.key>> \in dstBuckets
            /\ {e \in dstEntries : e[1] = <<n, sb.key>>}
                 = YieldedValues(<<n, sb.key>>, sb.child)
            /\ YieldedValues(<<n>>, store[n].node) \subseteq dstEntries

\* C7 as stated: when the destination transaction of a top-level bucket
\* fails, the run aborts at once: no further top-level bucket is read or
\* written.
C7_WriteFailureAborts ==
  \A n \in DOMAIN store :
    TxFailed(n) =>
      ~(next > n /\ pc \in {"view", "foreach", "write", "commit", "return"})

\* C7 amended: when the destination transaction of a top-level bucket fails,
\* the failure is caught for that bucket: nothing of the bucket is committed
\* and an [ERROR] line names it; the run goes on with every remaining
\* top-level bucket, which is recovered as its own content determines, and
\* ends after the summary with a nonzero exit status.
C7_WriteFailureIsPerBucket ==
  (pc = "exit" /\ Len(bucketNames) = Len(store)) =>
    \A n \in DOMAIN store :
      TxFailed(n) =>
        /\ RunEnded
        /\ exitCode = 1
        /\ DstBucketsOf(n) = {} /\ DstEntriesOf(n) = {}
        /\ Lines("error_write", n) # {}
        /\ \A x \in DOMAIN store :
             x > n => /\ Lines("recovering", x) # {}
                      /\ DstBucketsOf(x) = AloneBuckets(x)
                      /\ DstEntriesOf(x) = AloneEntries(x)

\* A finished run in which the commit of the first bucket, which had staged
\* entries, failed and a later bucket was written.
C7_Witness ==
  /\ RunEnded
  /\ Len(store) >= 2
  /\ <<"commit", 0, 0>> \in RejectedAt(1)
  /\ Values(store[1].node) # <<>>
  /\ DstEntriesOf(2) # {}

\* What bucket n holds when its enumeration does not panic: its content, or
\* nothing when it cannot be located (AloneNode); the entries a run stages
\* for it are its direct entries and the entries each sub-bucket yields.
StagedEntries(n) ==
  YieldedValues(<<n>>, AloneNode(n))
    \cup UNION {YieldedValues(<<n, sb.key>>, sb.child) :
                  sb \in {x \in Range(Yielded(AloneNode(n))) : IsBucket(x)}}
StagedBuckets(n) ==
  {<<n>>} \cup {<<n, sb.key>> : sb \in {x \in Range(Yielded(AloneNode(n))) : IsBucket(x)}}
\* The staged entry whose put is <<"put", j, i>>.
EntryAt(n, j, i) ==
  IF j = 0
  THEN LET v == Values(AloneNode(n))[i] IN <<<<n>>, v.key, v.val>>
  ELSE LET sb == Buckets(AloneNode(n))[j]
           kept == SelectSeq(Yielded(sb.child), IsValue)
       IN  <<<<n, sb.key>>, kept[i].key, kept[i].val>>
\* The staged entries of bucket n whose put failed.
Skipped(n) == {EntryAt(n, r[2], r[3]) : r \in {q \in RejectedAt(n) : q[1] = "put"}}

\* C8: top-level buckets are processed one after another with exactly one
\* destination transaction each: when the source read of a bucket starts,
\* every earlier bucket has had its one transaction, committed or discarded;
\* at every point the destination holds the complete recovered content of
\* every completed bucket, all or nothing of the bucket in progress, and
\* nothing of the buckets not yet reached.
C8_OneTransactionPerBucketInOrder ==
  /\ pc \in {"view", "foreach", "write"} => (~txOpen /\ txCount = next - 1)
  /\ pc \in {"commit", "return"} => txCount = next
  /\ pc = "loop" => (~txOpen /\ txCount = next - 1)
  /\ \A x \in DOMAIN store :
       /\ Returned(x) =>
            (DstBucketsOf(x) = AloneBuckets(x) /\ DstEntriesOf(x) = AloneEntries(x))
       /\ (x = next /\ pc # "exit") =>
            \/ (DstBucketsOf(x) = {} /\ DstEntriesOf(x) = {})
            \/ (DstBucketsOf(x) = AloneBuckets(x) /\ DstEntriesOf(x) = AloneEntries(x))
       /\ x > next => (DstBucketsOf(x) = {} /\ DstEntriesOf(x) = {})

\* The same statement with at most one transaction per bucket -- none for a
\* bucket whose own enumeration panics: it holds.
AtMostOneTransactionPerBucketInOrder ==
  LET done(k) == Cardinality({x \in 1..k : ~TopFaulted(x)})
  IN
  /\ pc \in {"view", "foreach", "write"} => (~txOpen /\ txCount = done(next - 1))
  /\ pc = "commit" => txCount = done(next)
  /\ pc = "return" => (~txOpen /\ txCount = done(next))
  /\ pc = "loop" => (~txOpen /\ txCount = done(next - 1))
  /\ \A x \in DOMAIN store :
       /\ Returned(x) =>
            (DstBucketsOf(x) = AloneBuckets(x) /\ DstEntriesOf(x) = AloneEntries(x))
       /\ (x = next /\ pc # "exit") =>
            \/ (DstBucketsOf(x) = {} /\ DstEntriesOf(x) = {})
            \/ (DstBucketsOf(x) = AloneBuckets(x) /\ DstEntriesOf(x) = AloneEntries(x))
       /\ x > next => (DstBucketsOf(x) = {} /\ DstEntriesOf(x) = {})

\* C9: when puts fail inside a bucket's destination transaction and nothing
\* else does, only those entries are skipped and the transaction commits:
\* the bucket and its staged sub-buckets are created, every other staged
\* direct entry and sub-bucket entry is written, and `recovered` does not
\* count the skipped entries.
C9_FailedPutSkipsOnlyThatEntry ==
  \A n \in {r[1] : r \in rejected} :
    (\A r \in RejectedAt(n) : r[1] = "put") =>
      /\ (Returned(n) \/ (pc = "return" /\ next = n)) =>
           /\ DstBucketsOf(n) = StagedBuckets(n)
           /\ DstEntriesOf(n) = StagedEntries(n) \ Skipped(n)
           /\ Cardinality(Skipped(n)) = Cardinality(RejectedAt(n))
      /\ (pc = "return" /\ next = n) =>
           /\ ok
           /\ recovered = Cardinality(StagedEntries(n)) - Cardinality(Skipped(n))

\* recoverBucket returns after the put of the first of three staged direct
\* entries failed, with the other entries and a sub-bucket entry written.
C9_Witness ==
  /\ pc = "return"
  /\ RejectedAt(next) = {<<"put", 0, 1>>}
  /\ Len(pairs) >= 2
  /\ \E e \in DstEntriesOf(next) : Len(e[1]) = 2
  /\ \E e \in DstEntriesOf(next) : Len(e[1]) = 1
  /\ recovered = Cardinality(DstEntriesOf(next))

\* A sub-bucket entry's put failed and the rest was written.
C9_SubWitness ==
  /\ pc = "return"
  /\ \E r \in RejectedAt(next) : r[1] = "put" /\ r[2] > 0
  /\ Cardinality(DstEntriesOf(next)) >= 3

\* C10: when a listed top-level bucket cannot be located at the moment of
\* descent, the run is not aborted and every other listed bucket is still
\* visited, and the bucket's own result is degraded: it is reported as a
\* bucket with an error, not as a clean recovery.
C10_NotFoundBucketDegraded ==
  /\ (pc = "exit" /\ Len(bucketNames) = Len(store)) =>
       \A n \in DOMAIN store :
         ~store[n].found =>
           (RunEnded /\ \A x \in DOMAIN store : Lines("recovering", x) # {})
  /\ (pc = "return" /\ ~CurBucket.found /\ RejectedAt(next) = {}) => ~ok

\* The part of C10 that holds: the run is not aborted and the other buckets
\* are visited and recovered.
NotFoundBucketDoesNotAbort ==
  (pc = "exit" /\ Len(bucketNames) = Len(store)) =>
    \A n \in DOMAIN store :
      ~store[n].found =>
        /\ RunEnded
        /\ \A x \in DOMAIN store :
             /\ Lines("recovering", x) # {}
             /\ DstEntriesOf(x) = AloneEntries(x)

\* C11: on every path by which the run ends -- completion with no failed
\* bucket, completion with a failed bucket and exit status 1, or a fatal
\* error after a store was opened -- every store handle that was opened has
\* been closed when the process exits.
C11_HandlesClosedAtExit ==
  pc = "exit" => (srcOpen # "open" /\ dstOpen # "open")

\* The paths on which the deferred Close calls (main.go:32, 38) do run: main
\* returns (exit status 0) or a panic unwinds main (exit status 2).
HandlesClosedWhenMainReturnsOrPanics ==
  (pc = "exit" /\ exitCode \in {0, 2}) => (srcOpen = "closed" /\ dstOpen = "closed")

\* The run completed, a bucket failed, and the process exited through
\* os.Exit(1) with both handles still open.
ExitWithFailedBucketLeavesHandlesOpen ==
  RunEnded /\ exitCode = 1 /\ srcOpen = "open" /\ dstOpen = "open"

\* The enumeration of the bucket being recovered has ended -- it yielded
\* every entry, it panicked, or the bucket could not be located -- and each
\* entry it yielded is staged: a key/value entry in pairs, a nested bucket,
\* read to its end or to its panic by recoverSubBucket, in subs.
EnumerationEnded ==
  /\ \/ ~CurBucket.found
     \/ pos = Len(CurBucket.node.items)
     \/ pos = CurBucket.node.fault
  /\ Len(pairs) + Len(subs) = pos
  /\ \A j \in DOMAIN subs :
       \E sb \in Range(Yielded(CurBucket.node)) :
         IsBucket(sb) /\ sb.key = subs[j].name /\ subs[j].data = recoverSubBucket(sb.child)

\* C12: for every top-level bucket, no destination write (bucket creation or
\* put) happens until the enumeration of that bucket and of all its
\* sub-buckets has ended, normally or by a caught panic; and no entry written
\* to the destination is rolled back because of a source fault found later:
\* a transaction is discarded only when the destination itself fails, and
\* what was committed is never removed.
C12_NoWriteBeforeEnumerationEnds ==
  /\ [](pc \in {"view", "foreach"} =>
          (~txOpen /\ DstBucketsOf(CurName) = {} /\ DstEntriesOf(CurName) = {}))
  /\ [][(txVars' # txVars \/ dstVars' # dstVars) =>
          (pc \in {"write", "commit"} /\ EnumerationEnded)]_vars
  /\ [][(txOpen /\ ~txOpen' /\ dstVars' = dstVars) =>
          (pc = "commit" /\ rejected' = rejected \cup {<<CurName, "commit", 0, 0>>})]_vars
  /\ [][dstBuckets \subseteq dstBuckets' /\ dstEntries \subseteq dstEntries']_vars

\* A destination transaction is in progress for a bucket with a direct entry
\* and a sub-bucket whose enumeration panicked after one entry; both are in
\* the transaction's working copy.
C12_Witness ==
  /\ pc = "commit" /\ txOpen
  /\ \E j \in DOMAIN subs :
       /\ Len(subs[j].data) = 1
       /\ \E e \in txEntries : e[1] = <<CurName, subs[j].name>>
       /\ \E sb \in Range(CurBucket.node.items) :
            sb.key = subs[j].name /\ sb.child.fault = 1
  /\ \E e \in txEntries : e[1] = <<CurName>>
  /\ DstEntriesOf(CurName) = {}

\* The bucket path a [PANIC] line reports: both lines print one name with %q
\* (main.go:92, 177).
FaultRecordPath(line) == <<line[2]>>
\* The sub-buckets that the run visits in top-level bucket n and whose
\* enumeration panics.
FaultedSubs(n) ==
  IF store[n].found
  THEN {sb \in Range(Yielded(store[n].node)) : IsBucket(sb) /\ sb.child.fault # NoFault}
  ELSE {}

\* C13: every fault record reports the path of the bucket or sub-bucket in
\* which the panic occurred and a count equal to the number of entries
\* already staged for that unit when the panic interrupted it: for a panic
\* in a top-level bucket's own enumeration the bucket's name and the number
\* of its staged direct entries, for a panic in a sub-bucket the child's
\* path and the number of entries read from the child (0 when the child
\* panics at once).
C13_FaultRecordHasPathAndCount ==
  /\ (pc = "return" /\ TopFaulted(CurName)) =>
       /\ out[Len(out)][1] = "panic_bucket"
       /\ FaultRecordPath(out[Len(out)]) = <<CurName>>
       /\ out[Len(out)][3] = Len(pairs)
  /\ \A i \in DOMAIN out :
       out[i][1] = "panic_sub" =>
         \E n \in DOMAIN store : \E sb \in FaultedSubs(n) :
           /\ FaultRecordPath(out[i]) = <<n, sb.key>>
           /\ out[i][3] = Cardinality(YieldedValues(<<n, sb.key>>, sb.child))

\* What the fault records do report: the top-level line names the bucket and
\* gives `recovered`, which is 0 when the deferred function runs; the
\* sub-bucket line names the parent bucket and gives the number of entries
\* read from the child before the panic.
FaultRecordAsPrinted ==
  /\ (pc = "return" /\ TopFaulted(CurName)) =>
       out[Len(out)] = <<"panic_bucket", CurName, 0>>
  /\ \A i \in DOMAIN out :
       out[i][1] = "panic_sub" =>
         \E sb \in FaultedSubs(out[i][2]) :
           out[i][3] = Cardinality(YieldedValues(<<out[i][2], sb.key>>, sb.child))

\* A top-level panic was recovered with a direct entry staged.
TopPanicWithStagedEntry ==
  pc = "return" /\ TopFaulted(CurName) /\ Len(pairs) > 0

\* The names in the "Recovering bucket" lines printed so far, in order.
Visited ==
  LET starts == SelectSeq(out, LAMBDA l : l[1] = "recovering")
  IN  [i \in 1..Len(starts) |-> starts[i][2]]

\* C14: whatever panics are raised while enumerating buckets and
\* sub-buckets, the run terminates; every listed top-level bucket is visited
\* exactly once, in listing order; no panic of a bucket stops the loop early
\* (once the names are listed the run ends only after the last bucket); and
\* the summary is emitted after the last bucket, as the last line.
C14_RunTerminatesAfterEveryBucket ==
  /\ <>(pc = "exit")
  /\ [](pc \in {"loop", "view", "foreach", "write", "commit", "return"} =>
          Visited = SubSeq(bucketNames, 1, IF pc = "loop" THEN next - 1 ELSE next))
  /\ []((pc = "exit" /\ out # <<>>) =>
          /\ RunEnded
          /\ bucketNames = [n \in 1..Len(store) |-> n]
          /\ Visited = bucketNames
          /\ Cardinality({i \in DOMAIN out : out[i][1] = "summary"}) = 1)

\* A finished run over three buckets in which the first panicked in its own
\* enumeration and the second in a sub-bucket, and all three were visited.
C14_Witness ==
  /\ RunEnded
  /\ Len(store) = 3
  /\ TopFaulted(1)
  /\ SubFaulted(2) /\ ~TopFaulted(2)
  /\ Visited = <<1, 2, 3>>

\* The [WARN] lines printed for the bucket being recovered: those after its
\* "Recovering bucket" line.
WarningsOfCurrent ==
  LET start == CHOOSE i \in DOMAIN out :
                 /\ out[i] = <<"recovering", CurName>>
                 /\ \A j \in DOMAIN out : j > i => out[j][1] # "recovering"
  IN  {i \in DOMAIN out : i > start /\ out[i][1] \in {"warn_key", "warn_sub"}}

\* C15: every staged entry that does not reach the destination because its
\* write failed -- a failed put of a direct entry, a failed put of a
\* sub-bucket entry, or a sub-bucket that could not be created -- is reported
\* by a warning: when the transaction function has run, the bucket has one
\* [WARN] line for each such failed operation.
C15_FailedWritesAreWarned ==
  pc \in {"commit", "return"} =>
    Cardinality(WarningsOfCurrent)
      = Cardinality({r \in RejectedAt(CurName) :
                       r[1] = "put" \/ (r[1] = "mk" /\ r[2] > 0)})

\* What is warned: the failed puts of direct entries and the sub-buckets that
\* could not be created; the failed put of a sub-bucket entry is not.
FailedWritesWarnedExceptSubBucketPuts ==
  pc \in {"commit", "return"} =>
    Cardinality(WarningsOfCurrent)
      = Cardinality({r \in RejectedAt(CurName) :
                       (r[1] = "put" /\ r[2] = 0) \/ (r[1] = "mk" /\ r[2] > 0)})

\* The put of a sub-bucket entry failed, the transaction committed without
\* it, and no warning was printed.
SubBucketPutFailedSilently ==
  /\ pc = "return" /\ ok
  /\ \E r \in RejectedAt(CurName) : r[1] = "put" /\ r[2] > 0
  /\ WarningsOfCurrent = {}

\* The tag of the line that reports a bucket's result with its entry count
\* and its sub-bucket count: "[OK] %d keys, %d sub-buckets" (main.go:170).
BucketResultTags == {"ok"}
\* The tags of the lines after which recoverBucket returns: the [OK] line,
\* the [PANIC] line of the bucket's own enumeration (main.go:92) and the
\* "[ERROR] Writing bucket" line (main.go:166).
BucketEndTags == {"ok", "panic_bucket", "error_write"}

\* The order of the printed lines, for a given set of tags of the line that
\* closes a bucket: first the bucket count; then for each top-level bucket,
\* in listing order, its "Recovering bucket" line, then detail lines, then
\* exactly one closing line, all before the next bucket's first line; and
\* the summary last, once.
EventOrder(closing) ==
  /\ \A i \in DOMAIN out :
       /\ out[i][1] = "found" <=> i = 1
       /\ out[i][1] = "summary" => (i = Len(out) /\ pc = "exit")
       /\ out[i][1] \in {"recovering", "summary"} =>
            (i = 2 \/ out[i - 1][1] \in closing)
       /\ out[i][1] = "recovering" =>
            out[i][2] = bucketNames[Cardinality({j \in 1..i : out[j][1] = "recovering"})]
       /\ (out[i][1] \in closing /\ i < Len(out)) =>
            out[i + 1][1] \in {"recovering", "summary"}
       /\ out[i][1] \in closing => (i > 1 /\ out[i - 1][1] # "found")
  /\ pc = "return" => out[Len(out)][1] \in closing
  /\ (pc = "exit" /\ out # <<>>) =>
       /\ out[Len(out)][1] = "summary"
       /\ Cardinality({j \in DOMAIN out : out[j][1] = "recovering"}) = Len(bucketNames)

\* C16: the lines come in a fixed order: first the top-level bucket count;
\* then for each top-level bucket one "bucket started" line, zero or more
\* fault details, and exactly one bucket result line giving the entry count
\* and the sub-bucket count, all before any line of the next bucket; and
\* finally one summary -- for buckets that fault as for those that do not.
\* Stated for the runs in which the destination fails no operation.
C16_EventOrderWithResultPerBucket ==
  rejected = {} =>
    /\ EventOrder(BucketResultTags)
    /\ pc = "return" =>
         (out[Len(out)][2] = Len(pairs) /\ out[Len(out)][3] = Len(subs))

\* The same order with the bucket closed by whichever line recoverBucket
\* prints last: it holds, but a bucket whose enumeration panicked or whose
\* transaction failed is closed by its [PANIC] or [ERROR] line, which gives
\* no entry and sub-bucket count.
EventOrderWithClosingLinePerBucket ==
  /\ EventOrder(BucketEndTags)
  /\ (pc = "return" /\ ok) =>
       out[Len(out)] = <<"ok", Len(pairs), Len(subs)>>

\* A finished run over three buckets of which one panicked and got no [OK]
\* line and the others got one each.
RunWithBucketWithoutResultLine ==
  /\ RunEnded
  /\ Len(store) = 3
  /\ TopFaulted(2) /\ rejected = {}
  /\ Cardinality({i \in DOMAIN out : out[i][1] \in BucketResultTags}) = 2

\* Top-level bucket n has a sub-bucket that holds a nested bucket.
HasDeepNesting(n) ==
  \E sb \in Range(Buckets(store[n].node)) : Buckets(sb.child) # <<>>
\* The entries of the source at most one level below a top-level bucket, and
\* the (key, value) pairs that top-level bucket n holds deeper than that.
ShallowEntries == {e \in SrcEntries : Len(e[1]) <= 2}
DeepPairs(n) ==
  UNION { UNION { {<<it.key, it.val>> : it \in Range(Values(g.child))}
                  : g \in Range(Buckets(sb.child)) }
          : sb \in Range(Buckets(store[n].node)) }
\* Entry e, of a path at most one level below a top-level bucket, is in the
\* source store: e \in ShallowEntries, decided from e's path.
SrcHas(e) ==
  /\ e[1][1] \in DOMAIN store
  /\ IF Len(e[1]) = 1
     THEN \E it \in Range(store[e[1][1]].node.items) :
            IsValue(it) /\ it.key = e[2] /\ it.val = e[3]
     ELSE /\ Len(e[1]) = 2
          /\ \E sb \in Range(store[e[1][1]].node.items) :
               /\ IsBucket(sb) /\ sb.key = e[1][2]
               /\ \E it \in Range(sb.child.items) :
                    IsValue(it) /\ it.key = e[2] /\ it.val = e[3]

\* C17: buckets nested inside a sub-bucket are never descended into: the
\* destination (and a transaction in progress) holds no bucket deeper than
\* one level below a top-level bucket, no entry of a deeper bucket and no
\* entry under a nested bucket's key; skipping them prints no fault line and
\* does not make recoverBucket return ok = false.
C17_DeepNestingSkippedSilently ==
  /\ \A q \in dstBuckets \cup txBuckets : Len(q) <= 2
  /\ \A e \in dstEntries \cup txEntries :
       /\ Len(e[1]) <= 2
       /\ <<e[2], e[3]>> \in DeepPairs(e[1][1]) => SrcHas(e)
       /\ e[3] # Nil
  /\ (pc = "return" /\ HasDeepNesting(CurName)) =>
       /\ (~TopFaulted(CurName) /\ ~TxFailed(CurName)) => ok
       /\ ~SubFaulted(CurName) => Lines("panic_sub", CurName) = {}
       /\ ~TopFaulted(CurName) => Lines("panic_bucket", CurName) = {}

\* A finished run without a failed bucket over a store with a bucket nested
\* in a sub-bucket: the sub-bucket's entries before and after the nested
\* bucket were written.
C17_Witness ==
  /\ RunEnded /\ exitCode = 0
  /\ \E n \in DOMAIN store :
       /\ HasDeepNesting(n)
       /\ DeepPairs(n) # {}
       /\ Lines("panic_sub", n) = {}
       /\ \E sb \in Range(Buckets(store[n].node)) :
            /\ Buckets(sb.child) # <<>>
            /\ YieldedValues(<<n, sb.key>>, sb.child) \subseteq dstEntries
            /\ Cardinality(YieldedValues(<<n, sb.key>>, sb.child)) = 2

\* The bucket paths of the source store down to one level below a top-level
\* bucket.
SrcBuckets ==
  {<<n>> : n \in DOMAIN store}
    \cup UNION {{<<n, sb.key>> : sb \in Range(Buckets(store[n].node))} : n \in DOMAIN store}

\* C18: in a run into a fresh destination, for any combination of panics and
\* failed writes, every (bucket path, key, value) in the destination -- and
\* in a transaction in progress -- is in the source at the same path with the
\* same value, and every destination bucket is a bucket of the source:
\* panics, truncation and skipped writes only remove data, they never add,
\* move or alter an entry.
C18_DestinationWithinSource ==
  /\ \A e \in dstEntries : SrcHas(e)
  /\ \A e \in txEntries : SrcHas(e)
  /\ \A q \in dstBuckets \cup txBuckets :
       /\ q[1] \in DOMAIN store
       /\ Len(q) > 1 =>
            (Len(q) = 2 /\ \E sb \in Range(store[q[1]].node.items) :
                             IsBucket(sb) /\ sb.key = q[2])

\* SrcHas is membership in the source's entries, and the bucket paths of the
\* destination are among the source's.
SrcHasIsMembership ==
  /\ \A e \in dstEntries \cup txEntries \cup SrcEntries :
       SrcHas(e) <=> e \in ShallowEntries
  /\ dstBuckets \cup txBuckets \subseteq SrcBuckets

\* A finished run with a panic in a top-level bucket, a panic in a
\* sub-bucket of another and a failed put, which wrote part of the source.
C18_Witness ==
  /\ RunEnded
  /\ \E n \in DOMAIN store : TopFaulted(n)
  /\ \E n \in DOMAIN store :
       /\ SubFaulted(n) /\ ~TopFaulted(n)
       /\ \E e \in DstEntriesOf(n) : Len(e[1]) = 2
  /\ \E r \in rejected : r[2] = "put"
  /\ dstEntries # {}
  /\ dstEntries # ShallowEntries

\* C19: the "Total keys recovered" figure of the summary equals the number of
\* key/value entries committed to the destination during the run (direct
\* entries plus sub-bucket entries), for any combination of panics, skipped
\* puts and failed destination transactions.
C19_TotalKeysIsCommittedEntries ==
  RunEnded => out[Len(out)][2] = Cardinality(dstEntries)

\* The figure is right in every run in which no commit failed: panics,
\* skipped puts and a failed bucket creation leave it equal to the number of
\* committed entries.
TotalKeysIsCommittedEntriesUnlessCommitFailed ==
  (RunEnded /\ \A r \in rejected : r[2] # "commit") =>
    out[Len(out)][2] = Cardinality(dstEntries)

\* A finished run in which a commit failed and the summary counts entries
\* that are not in the destination.
TotalKeysCountsDiscardedTransaction ==
  /\ RunEnded
  /\ \E r \in rejected : r[2] = "commit"
  /\ out[Len(out)][2] > Cardinality(dstEntries)

\* C20: recovery of the first top-level bucket starts only after the
\* complete list of top-level bucket names was collected without error; when
\* the listing ends with an error or a panic, no bucket is read or written,
\* nothing is printed -- no summary --, and the process exits with a nonzero
\* status, leaving the destination store, already created, without any
\* bucket.
C20_ListingFailureStopsBeforeRecovery ==
  /\ pc \in {"loop", "view", "foreach", "write", "commit", "return"} =>
       (listing = "ok" /\ bucketNames = [n \in 1..Len(store) |-> n])
  /\ listing # "ok" =>
       /\ out = <<>>
       /\ pos = 0 /\ pairs = <<>> /\ subs = <<>>
       /\ txCount = 0 /\ ~txOpen
       /\ dstBuckets = {} /\ dstEntries = {}
       /\ pc \in {"open_src", "open_dst", "list", "exit"}
       /\ pc = "exit" => exitCode \in {1, 2}

\* The listing of a store of three buckets panicked after two names were
\* collected, with the destination created, and the process has exited.
C20_Witness ==
  /\ pc = "exit"
  /\ listing = "panic"
  /\ exitCode = 2
  /\ dstOpen = "closed"
  /\ Len(store) = 3
  /\ Len(bucketNames) = 2
  /\ dstBuckets = {}

\* The listing returned an error with the destination created; the process
\* has exited with status 1.
C20_ErrorWitness ==
  /\ pc = "exit"
  /\ listing = "error"
  /\ exitCode = 1
  /\ dstOpen = "open"
  /\ Len(store) = 3
  /\ dstBuckets = {}

====
